---- MODULE Spec2Model ----
(* The hub resolver of pkg/resolution/resolver/hub/resolver.go:             *)
(* ValidateParams and Resolve of one Resolver, called one at a time by the  *)
(* host, with the hub's HTTP answer chosen by the environment.              *)
(*                                                                          *)
(* Go strings that are only compared or copied are TLA+ strings.  A string  *)
(* that fmt builds is the sequence of its pieces, in order.  A JSON string  *)
(* literal is the sequence of its lexemes, the decoded Go string the        *)
(* sequence of its characters and a []byte the sequence of its byte values. *)
(* An optional value (an error, a pointer, a response) is a sequence of     *)
(* length 0 or 1, or the empty sequence of pieces for a nil error.          *)
EXTENDS Integers, Sequences, FiniteSets, TLC

----------------------------------------------------------------------------
(* Bounds and input alphabets *)

MaxParams == 3

CatalogValues == {"Tekton"}
KindValues    == {"task", "pipeline", "Task"}
NameValues    == {"git-clone", ""}
VersionValues == {"0.9"}

ConfCatalogValues == {"tekton-default", ""}
ConfKindValues    == {"pipeline", "bad"}

TransportErrors == {"dial tcp: connection refused"}

----------------------------------------------------------------------------
(* Constants of the package *)

disabledError ==
    "cannot handle resolution request, enable-hub-resolver feature flag not true"

ParamName    == "name"
ParamVersion == "version"
ParamKind    == "kind"
ParamCatalog == "catalog"

ConfigCatalog == "catalog"
ConfigKind    == "kind"

StatusOK == 200

nameParamError    == "must include name param"
versionParamError == "must include version param"
kindParamError    == "kind param must be task or pipeline"
catalogDefaultError ==
    "default catalog was not set during installation of the hub resolver"
kindDefaultError ==
    "default resource Kind was not set during installation of the hub resolver"

getErrorFormat    == <<"error requesting resource from hub: ", "%w">>
notFoundFormat    == <<"requested resource '", "%s", "' not found on hub">>
readErrorFormat   == <<"error reading response body: ", "%w">>
decodeErrorFormat == <<"error unmarshalling json response: ", "%w">>

\* The URL template the resolver instance is constructed with.
HubURLs == { <<"https://hub/v1/resource/", "%s", "/", "%s", "/", "%s", "/", "%s", "/yaml">> }

----------------------------------------------------------------------------
(* Go maps, and fmt *)

EmptyMap == <<>>

Put(m, k, v) == [x \in (DOMAIN m) \cup {k} |-> IF x = k THEN v ELSE m[x]]

\* m[k] of a map[string]string: the zero value when k is absent.
MapGet(m, k) == IF k \in DOMAIN m THEN m[k] ELSE ""

\* fmt.Sprintf / fmt.Errorf with %s and %w verbs; every argument is a string
\* given as its pieces.
RECURSIVE Sprintf(_, _)
Sprintf(format, args) ==
    IF format = <<>>
    THEN IF args = <<>> THEN <<>> ELSE <<"%!(EXTRA)">>
    ELSE IF Head(format) \in {"%s", "%w"}
         THEN IF args = <<>>
              THEN <<"%!s(MISSING)">> \o Sprintf(Tail(format), args)
              ELSE Head(args) \o Sprintf(Tail(format), Tail(args))
         ELSE <<Head(format)>> \o Sprintf(Tail(format), args)

\* errors.New(text)
NewError(text) == <<text>>

NoError == <<>>

----------------------------------------------------------------------------
(* Requests and ambient context *)

Param(n, v) == [Name |-> n, Value |-> [StringVal |-> v]]

ParamSet ==
    {Param(ParamCatalog, v) : v \in CatalogValues}
      \cup {Param(ParamKind, v) : v \in KindValues}
      \cup {Param(ParamName, v) : v \in NameValues}
      \cup {Param(ParamVersion, v) : v \in VersionValues}

ParamLists == UNION {[1..n -> ParamSet] : n \in 0..MaxParams}

ConfMaps ==
    {m \in UNION {[S -> ConfCatalogValues \cup ConfKindValues] :
                     S \in SUBSET {ConfigCatalog, ConfigKind}} :
        /\ ConfigCatalog \in DOMAIN m => m[ConfigCatalog] \in ConfCatalogValues
        /\ ConfigKind \in DOMAIN m => m[ConfigKind] \in ConfKindValues}

Contexts == [EnableHubResolver : BOOLEAN, conf : ConfMaps]

----------------------------------------------------------------------------
(* Feature flag and parameter handling *)

isDisabled_AlwaysEnabled(c) == FALSE

isDisabled(c) == IF c.EnableHubResolver THEN FALSE ELSE TRUE

GetResolverConfigFromContext(c) == c.conf

\* for _, p := range params { paramsMap[p.Name] = p.Value }
RECURSIVE CollapseValues(_, _)
CollapseValues(ps, m) ==
    IF ps = <<>> THEN m
    ELSE CollapseValues(Tail(ps), Put(m, Head(ps).Name, Head(ps).Value))

CollapseStrings_FirstWins(ps, m) ==
    [n \in (DOMAIN m) \cup {ps[i].Name : i \in DOMAIN ps} |->
        IF n \in DOMAIN m THEN m[n]
        ELSE LET i == CHOOSE j \in DOMAIN ps :
                        /\ ps[j].Name = n
                        /\ \A k \in DOMAIN ps : ps[k].Name = n => j <= k
             IN ps[i].Value.StringVal]

\* for _, p := range params { paramsMap[p.Name] = p.Value.StringVal }
RECURSIVE CollapseStrings(_, _)
CollapseStrings(ps, m) ==
    IF ps = <<>> THEN m
    ELSE CollapseStrings(Tail(ps), Put(m, Head(ps).Name, Head(ps).Value.StringVal))

ValidateParamsErr_FoldsKindCase(c, ps) ==
    IF isDisabled(c) THEN NewError(disabledError)
    ELSE LET paramsMap == CollapseValues(ps, EmptyMap)
         IN IF ParamName \notin DOMAIN paramsMap
            THEN NewError(nameParamError)
            ELSE IF ParamVersion \notin DOMAIN paramsMap
            THEN NewError(versionParamError)
            ELSE IF ParamKind \in DOMAIN paramsMap
                      /\ paramsMap[ParamKind].StringVal \notin
                            {"task", "pipeline", "Task", "Pipeline"}
            THEN NewError(kindParamError)
            ELSE NoError

ValidateParamsErr_KindFirst(c, ps) ==
    IF isDisabled(c) THEN NewError(disabledError)
    ELSE LET paramsMap == CollapseValues(ps, EmptyMap)
         IN IF ParamKind \in DOMAIN paramsMap
                 /\ paramsMap[ParamKind].StringVal # "task"
                 /\ paramsMap[ParamKind].StringVal # "pipeline"
            THEN NewError(kindParamError)
            ELSE IF ParamName \notin DOMAIN paramsMap
            THEN NewError(nameParamError)
            ELSE IF ParamVersion \notin DOMAIN paramsMap
            THEN NewError(versionParamError)
            ELSE NoError

\* The error ValidateParams returns (NoError for nil).
ValidateParamsErr(c, ps) ==
    IF isDisabled(c) THEN NewError(disabledError)
    ELSE LET paramsMap == CollapseValues(ps, EmptyMap)
         IN IF ParamName \notin DOMAIN paramsMap
            THEN NewError(nameParamError)
            ELSE IF ParamVersion \notin DOMAIN paramsMap
            THEN NewError(versionParamError)
            ELSE IF ParamKind \in DOMAIN paramsMap
                      /\ paramsMap[ParamKind].StringVal # "task"
                      /\ paramsMap[ParamKind].StringVal # "pipeline"
            THEN NewError(kindParamError)
            ELSE NoError

ResolveParams_NoCatalogCheck(r, c, ps) ==
    IF isDisabled(c)
    THEN [err |-> NewError(disabledError), confRead |-> FALSE,
          paramsMap |-> EmptyMap, url |-> <<>>]
    ELSE LET conf == GetResolverConfigFromContext(c)
             m0   == CollapseStrings(ps, EmptyMap)
             m1   == IF ParamCatalog \in DOMAIN m0 THEN m0
                     ELSE Put(m0, ParamCatalog, MapGet(conf, ConfigCatalog))
             kindOK == ParamKind \in DOMAIN m1 \/ ConfigKind \in DOMAIN conf
             kind == IF ParamKind \in DOMAIN m1 THEN m1[ParamKind]
                     ELSE MapGet(conf, ConfigKind)
             m2   == Put(m1, ParamKind, kind)
         IN IF ~kindOK
            THEN [err |-> NewError(kindDefaultError), confRead |-> TRUE,
                  paramsMap |-> m1, url |-> <<>>]
            ELSE IF kind # "task" /\ kind # "pipeline"
            THEN [err |-> NewError(kindParamError), confRead |-> TRUE,
                  paramsMap |-> m1, url |-> <<>>]
            ELSE [err |-> NoError, confRead |-> TRUE, paramsMap |-> m2,
                  url |-> Sprintf(r.HubURL,
                            << <<MapGet(m2, ParamCatalog)>>, <<MapGet(m2, ParamKind)>>,
                               <<MapGet(m2, ParamName)>>, <<MapGet(m2, ParamVersion)>> >>)]

\* Resolve up to the http.Get call: the error it returns early (NoError when it
\* goes on to fetch), whether the installation configuration was read, the local
\* paramsMap at that point and the URL it built.
ResolveParams(r, c, ps) ==
    IF isDisabled(c)
    THEN [err |-> NewError(disabledError), confRead |-> FALSE,
          paramsMap |-> EmptyMap, url |-> <<>>]
    ELSE LET conf == GetResolverConfigFromContext(c)
             m0   == CollapseStrings(ps, EmptyMap)
             catalogOK == ParamCatalog \in DOMAIN m0 \/ ConfigCatalog \in DOMAIN conf
             m1   == IF ParamCatalog \in DOMAIN m0 THEN m0
                     ELSE IF ConfigCatalog \in DOMAIN conf
                          THEN Put(m0, ParamCatalog, conf[ConfigCatalog])
                          ELSE m0
             kindOK == ParamKind \in DOMAIN m1 \/ ConfigKind \in DOMAIN conf
             kind == IF ParamKind \in DOMAIN m1 THEN m1[ParamKind]
                     ELSE MapGet(conf, ConfigKind)
             m2   == Put(m1, ParamKind, kind)
         IN IF ~catalogOK
            THEN [err |-> NewError(catalogDefaultError), confRead |-> TRUE,
                  paramsMap |-> m0, url |-> <<>>]
            ELSE IF ~kindOK
            THEN [err |-> NewError(kindDefaultError), confRead |-> TRUE,
                  paramsMap |-> m1, url |-> <<>>]
            ELSE IF kind # "task" /\ kind # "pipeline"
            THEN [err |-> NewError(kindParamError), confRead |-> TRUE,
                  paramsMap |-> m1, url |-> <<>>]
            ELSE [err |-> NoError, confRead |-> TRUE, paramsMap |-> m2,
                  url |-> Sprintf(r.HubURL,
                            << <<MapGet(m2, ParamCatalog)>>, <<MapGet(m2, ParamKind)>>,
                               <<MapGet(m2, ParamName)>>, <<MapGet(m2, ParamVersion)>> >>)]

----------------------------------------------------------------------------
(* The hub's answer: JSON text and its decoding into hubResponse *)

JSON(t, lit, kvs) == [t |-> t, lit |-> lit, kvs |-> kvs]

JInvalid    == JSON("invalid", <<>>, <<>>)   \* bytes that are not JSON
JNull       == JSON("null", <<>>, <<>>)
JNumber     == JSON("number", <<>>, <<>>)
JArray      == JSON("array", <<>>, <<>>)
JString(lit) == JSON("string", lit, <<>>)
JObject(kvs) == JSON("object", <<>>, kvs)
Member(k, v) == [k |-> k, v |-> v]

YamlLiteral == <<"a", "\\n", "b">>           \* the literal "a\nb"
StringLiterals == {YamlLiteral, <<>>}

DataValues  == {JNull, JNumber} \cup {JString(l) : l \in StringLiterals}
DataObjects ==
    {JObject(<<>>)}
      \cup {JObject(<<Member(k, v)>>) : k \in {"yaml", "YAML", "extra"}, v \in DataValues}
      \cup {JObject(<<Member("yaml", JString(YamlLiteral)), Member("yaml", v)>>) :
               v \in {JNull, JNumber}}
TopValues   == {JNull, JNumber, JArray, JString(YamlLiteral)} \cup DataObjects
Bodies ==
    {JInvalid, JNull, JNumber, JArray, JString(YamlLiteral), JObject(<<>>)}
      \cup {JObject(<<Member(k, v)>>) : k \in {"data", "extra"}, v \in TopValues}
      \cup {JObject(<<Member("Data", JObject(<<Member("yaml", JString(YamlLiteral))>>))>>),
            JObject(<<Member("data", JObject(<<Member("yaml", JString(YamlLiteral))>>)),
                      Member("data", JNumber)>>)}

Envelope == JObject(<<Member("data", JObject(<<Member("yaml", JString(YamlLiteral))>>))>>)

\* Statuses other than 200 come with an error page or with a well-formed
\* envelope; a body stream whose read fails carries no usable data.
Responses ==
    {[StatusCode |-> StatusOK, Body |-> [data |-> b, readErr |-> FALSE]] : b \in Bodies}
      \cup {[StatusCode |-> s, Body |-> [data |-> b, readErr |-> FALSE]] :
               s \in {404, 500}, b \in {JInvalid, Envelope}}
      \cup {[StatusCode |-> StatusOK, Body |-> [data |-> Envelope, readErr |-> TRUE]]}

\* The escape sequences of a JSON string literal, lexeme by lexeme.
UnquoteLexeme(x) ==
    CASE x = "\\n"  -> "\n"
      [] x = "\\t"  -> "\t"
      [] x = "\\\"" -> "\""
      [] x = "\\\\" -> "\\"
      [] OTHER      -> x

Unquote_KeepEscapes(lit) == lit

Unquote(lit) == [i \in DOMAIN lit |-> UnquoteLexeme(lit[i])]

\* []byte(s) on the characters the model uses (63 stands for any other).
ByteOf(ch) ==
    CASE ch = "a"  -> 97
      [] ch = "b"  -> 98
      [] ch = "n"  -> 110
      [] ch = "\n" -> 10
      [] ch = "\t" -> 9
      [] ch = "\"" -> 34
      [] ch = "\\" -> 92
      [] OTHER     -> 63

Bytes(s) == [i \in DOMAIN s |-> ByteOf(s[i])]

\* encoding/json matches an object key to a struct field by its json tag,
\* exactly or else ignoring case.
FoldKey(k) ==
    CASE k = "Data" -> "data"
      [] k = "YAML" -> "yaml"
      [] OTHER      -> k

FieldMatches(field, key) == key = field \/ FoldKey(key) = field

syntaxError == <<"invalid character looking for beginning of value">>
typeError   == <<"json: cannot unmarshal value into Go struct field">>

\* The decoder keeps the first type error and goes on decoding.
SaveError(acc, e) == IF acc.err = NoError THEN [acc EXCEPT !.err = e] ELSE acc

\* Decoding the members of a JSON object into a dataResponse, in document order.
RECURSIVE DecodeDataResponse(_, _)
DecodeDataResponse(kvs, acc) ==
    IF kvs = <<>> THEN acc
    ELSE LET kv == Head(kvs)
             next == IF ~FieldMatches("yaml", kv.k) THEN acc
                     ELSE IF kv.v.t = "string"
                          THEN [acc EXCEPT !.val = [YAML |-> Unquote(kv.v.lit)]]
                     ELSE IF kv.v.t = "null" THEN acc
                     ELSE SaveError(acc, typeError)
         IN DecodeDataResponse(Tail(kvs), next)

\* Decoding the members of a JSON object into a hubResponse, in document order.
RECURSIVE DecodeHubResponse(_, _)
DecodeHubResponse(kvs, acc) ==
    IF kvs = <<>> THEN acc
    ELSE LET kv == Head(kvs)
             next == IF ~FieldMatches("data", kv.k) THEN acc
                     ELSE IF kv.v.t = "object"
                          THEN LET d == DecodeDataResponse(kv.v.kvs,
                                            [val |-> acc.val.Data, err |-> acc.err])
                               IN [val |-> [Data |-> d.val], err |-> d.err]
                     ELSE IF kv.v.t = "null" THEN acc
                     ELSE SaveError(acc, typeError)
         IN DecodeHubResponse(Tail(kvs), next)

ZeroHubResponse == [Data |-> [YAML |-> <<>>]]

\* json.Unmarshal(body, &hr) with hr := hubResponse{}
Unmarshal(body) ==
    IF body.t = "invalid" THEN [val |-> ZeroHubResponse, err |-> syntaxError]
    ELSE IF body.t = "null" THEN [val |-> ZeroHubResponse, err |-> NoError]
    ELSE IF body.t = "object"
         THEN DecodeHubResponse(body.kvs, [val |-> ZeroHubResponse, err |-> NoError])
    ELSE [val |-> ZeroHubResponse, err |-> typeError]

----------------------------------------------------------------------------
(* The resolved resource *)

ResolvedHubResource(content) == [Content |-> content]

Data(rr) == rr.Content

Annotations(rr) == EmptyMap      \* a nil map

Source(rr) == <<>>               \* a nil *ConfigSource

----------------------------------------------------------------------------
(* Resolve from the return of http.Get on *)

readError == <<"unexpected EOF">>

ResolveResponse_ReadsNon200(url, resp) ==
    IF resp.Body.readErr
    THEN [res |-> <<>>, err |-> Sprintf(readErrorFormat, <<readError>>),
          read |-> TRUE, unmarshalled |-> FALSE, closed |-> TRUE]
    ELSE LET u == Unmarshal(resp.Body.data)
         IN IF resp.StatusCode # StatusOK \/ u.err # NoError
            THEN [res |-> <<>>, err |-> Sprintf(notFoundFormat, <<url>>),
                  read |-> TRUE, unmarshalled |-> TRUE, closed |-> TRUE]
            ELSE [res |-> <<ResolvedHubResource(Bytes(u.val.Data.YAML))>>,
                  err |-> NoError,
                  read |-> TRUE, unmarshalled |-> TRUE, closed |-> TRUE]

\* What Resolve returns for a response, and what it did to the response body:
\* the deferred Close is registered only after the status check.
ResolveResponse(url, resp) ==
    IF resp.StatusCode # StatusOK
    THEN [res |-> <<>>, err |-> Sprintf(notFoundFormat, <<url>>),
          read |-> FALSE, unmarshalled |-> FALSE, closed |-> FALSE]
    ELSE IF resp.Body.readErr
    THEN [res |-> <<>>, err |-> Sprintf(readErrorFormat, <<readError>>),
          read |-> TRUE, unmarshalled |-> FALSE, closed |-> TRUE]
    ELSE LET u == Unmarshal(resp.Body.data)
         IN IF u.err # NoError
            THEN [res |-> <<>>, err |-> Sprintf(decodeErrorFormat, <<u.err>>),
                  read |-> TRUE, unmarshalled |-> TRUE, closed |-> TRUE]
            ELSE [res |-> <<ResolvedHubResource(Bytes(u.val.Data.YAML))>>,
                  err |-> NoError,
                  read |-> TRUE, unmarshalled |-> TRUE, closed |-> TRUE]

----------------------------------------------------------------------------
(* State *)

VARIABLES
    r,            \* the Resolver: its HubURL template
    pc,           \* "idle", "get" (Resolve is inside http.Get), "done"
    op,           \* the operation called: "none", "ValidateParams", "Resolve"
    ctx,          \* the ambient context of the call: feature flag, installation config
    params,       \* the request's parameter list
    confRead,     \* whether the call read the installation configuration
    paramsMap,    \* Resolve's local paramsMap
    url,          \* Resolve's local url
    requests,     \* the URLs the call has sent an HTTP GET to
    resp,         \* the response http.Get returned, with the fate of its body
    res,          \* the returned resource (absent for nil)
    err           \* the returned error

vars == <<r, pc, op, ctx, params, confRead, paramsMap, url, requests, resp, res, err>>

NoContext == [EnableHubResolver |-> FALSE, conf |-> EmptyMap]

Init ==
    /\ r \in {[HubURL |-> t] : t \in HubURLs}
    /\ pc = "idle"
    /\ op = "none"
    /\ ctx = NoContext
    /\ params = <<>>
    /\ confRead = FALSE
    /\ paramsMap = EmptyMap
    /\ url = <<>>
    /\ requests = <<>>
    /\ resp = <<>>
    /\ res = <<>>
    /\ err = NoError

ValidateParams ==
    /\ pc = "idle"
    /\ \E c \in Contexts, ps \in ParamLists :
          /\ ctx' = c
          /\ params' = ps
          /\ err' = ValidateParamsErr(c, ps)
    /\ op' = "ValidateParams"
    /\ pc' = "done"
    /\ UNCHANGED <<r, confRead, paramsMap, url, requests, resp, res>>

\* Resolve, from its entry to its early return or to the http.Get call.
Resolve ==
    /\ pc = "idle"
    /\ \E c \in Contexts, ps \in ParamLists :
          LET p == ResolveParams(r, c, ps)
          IN /\ ctx' = c
             /\ params' = ps
             /\ confRead' = p.confRead
             /\ paramsMap' = p.paramsMap
             /\ url' = p.url
             /\ err' = p.err
             /\ IF p.err = NoError
                THEN pc' = "get" /\ requests' = Append(requests, p.url)
                ELSE pc' = "done" /\ requests' = requests
    /\ op' = "Resolve"
    /\ UNCHANGED <<r, resp, res>>

\* http.Get fails at the transport level and Resolve returns the wrapped error.
ResolveGetFails ==
    /\ pc = "get"
    /\ \E cause \in TransportErrors : err' = Sprintf(getErrorFormat, << <<cause>> >>)
    /\ pc' = "done"
    /\ UNCHANGED <<r, op, ctx, params, confRead, paramsMap, url, requests, resp, res>>

\* http.Get returns a response and Resolve runs to its return.
ResolveGetResponds ==
    /\ pc = "get"
    /\ \E answer \in Responses :
          LET out == ResolveResponse(url, answer)
          IN /\ resp' = <<[StatusCode |-> answer.StatusCode, Body |-> answer.Body,
                           read |-> out.read, unmarshalled |-> out.unmarshalled,
                           closed |-> out.closed]>>
             /\ res' = out.res
             /\ err' = out.err
    /\ pc' = "done"
    /\ UNCHANGED <<r, op, ctx, params, confRead, paramsMap, url, requests>>

\* The host takes the result; the next call starts afresh.
Return ==
    /\ pc = "done"
    /\ pc' = "idle"
    /\ op' = "none"
    /\ ctx' = NoContext
    /\ params' = <<>>
    /\ confRead' = FALSE
    /\ paramsMap' = EmptyMap
    /\ url' = <<>>
    /\ requests' = <<>>
    /\ resp' = <<>>
    /\ res' = <<>>
    /\ err' = NoError
    /\ UNCHANGED r

Next ==
    \/ ValidateParams
    \/ Resolve
    \/ ResolveGetFails
    \/ ResolveGetResponds
    \/ Return

Spec == Init /\ [][Next]_vars

----------------------------------------------------------------------------
(* What the request and the installation configuration say, read off the    *)
(* call's inputs directly                                                   *)

Called == op # "none"
Enabled == ctx.EnableHubResolver
Supplied(n) == \E i \in DOMAIN params : params[i].Name = n
LastValue(n) ==
    LET i == CHOOSE j \in DOMAIN params :
                /\ params[j].Name = n
                /\ \A k \in DOMAIN params : params[k].Name = n => k <= j
    IN params[i].Value.StringVal
Configured(k) == k \in DOMAIN ctx.conf
ValidKinds == {"task", "pipeline"}

CatalogAvailable == Supplied(ParamCatalog) \/ Configured(ConfigCatalog)
KindAvailable    == Supplied(ParamKind) \/ Configured(ConfigKind)
EffectiveCatalog ==
    IF Supplied(ParamCatalog) THEN LastValue(ParamCatalog) ELSE ctx.conf[ConfigCatalog]
EffectiveKind ==
    IF Supplied(ParamKind) THEN LastValue(ParamKind) ELSE ctx.conf[ConfigKind]
RequestValue(n) == IF Supplied(n) THEN LastValue(n) ELSE ""

Failed(text) == pc = "done" /\ err = <<text>> /\ res = <<>>
Got == resp # <<>>

----------------------------------------------------------------------------
(* C1 *)

\* C1: with the feature flag disabled, ValidateParams and Resolve both fail
\* with the feature-disabled error whatever the parameters and the installation
\* configuration are, and Resolve has issued no HTTP request.
C1_DisabledFails ==
    (Called /\ ~Enabled) =>
        /\ Failed(disabledError)
        /\ requests = <<>>
        /\ resp = <<>>

C1_Witness ==
    /\ op = "Resolve" /\ pc = "done" /\ ~Enabled
    /\ Supplied(ParamName) /\ Supplied(ParamVersion)
    /\ Supplied(ParamKind) /\ LastValue(ParamKind) = "task"
    /\ Configured(ConfigCatalog)
    /\ err = <<disabledError>>

----------------------------------------------------------------------------
(* C2 *)

\* C2: when Resolve issues the HTTP GET, and after a successful Resolve, the
\* effective parameter mapping holds catalog, kind, name and version, each with
\* a non-empty value.
C2_FullyPopulated ==
    (op = "Resolve" /\ (pc = "get" \/ (pc = "done" /\ err = NoError))) =>
        \A k \in {ParamCatalog, ParamKind, ParamName, ParamVersion} :
            k \in DOMAIN paramsMap /\ paramsMap[k] # ""

----------------------------------------------------------------------------
(* C3 *)

KindRejected == Called /\ Enabled /\ Supplied(ParamKind) /\ LastValue(ParamKind) \notin ValidKinds

\* C3 as stated: with the flag enabled and a kind parameter that is neither
\* "task" nor "pipeline", ValidateParams and Resolve fail with the invalid-kind
\* error whatever the other parameters and the configuration are.
C3_AlwaysInvalidParameter ==
    KindRejected => Failed(kindParamError)

\* C3 amended: with the flag enabled and a kind parameter that is neither
\* "task" nor "pipeline", both operations fail and no HTTP request is issued;
\* ValidateParams reports the invalid kind when name and version are present
\* and the missing name or version otherwise, Resolve reports the invalid kind
\* when a catalog is available and the missing default catalog otherwise.
C3_InvalidKindFails ==
    KindRejected =>
        /\ pc = "done" /\ res = <<>> /\ requests = <<>>
        /\ op = "ValidateParams" =>
              err = IF ~Supplied(ParamName) THEN <<nameParamError>>
                    ELSE IF ~Supplied(ParamVersion) THEN <<versionParamError>>
                    ELSE <<kindParamError>>
        /\ op = "Resolve" =>
              err = IF CatalogAvailable THEN <<kindParamError>>
                    ELSE <<catalogDefaultError>>

C3_Witness ==
    /\ KindRejected /\ op = "ValidateParams"
    /\ Supplied(ParamName) /\ Supplied(ParamVersion)
    /\ Failed(kindParamError)

----------------------------------------------------------------------------
(* C4 *)

HasDataYamlString(b) ==
    /\ b.t = "object"
    /\ \E i \in DOMAIN b.kvs :
          /\ b.kvs[i].k = "data"
          /\ b.kvs[i].v.t = "object"
          /\ \E j \in DOMAIN b.kvs[i].v.kvs :
                /\ b.kvs[i].v.kvs[j].k = "yaml"
                /\ b.kvs[i].v.kvs[j].v.t = "string"

IsDecodeError(e) == e # NoError /\ Head(e) = Head(decodeErrorFormat)

\* C4: a 200 response whose body is not JSON, or is JSON without the data.yaml
\* string field, makes Resolve fail with the decode error and return no
\* resource.
C4_OtherShapeIsDecodeError ==
    (pc = "done" /\ Got /\ resp[1].StatusCode = StatusOK /\ ~resp[1].Body.readErr
        /\ ~HasDataYamlString(resp[1].Body.data)) =>
        /\ IsDecodeError(err)
        /\ res = <<>>

----------------------------------------------------------------------------
(* C5 *)

\* C5: Resolve issues an HTTP request only after the flag check, the catalog
\* default lookup, the kind default lookup and the kind validity check have
\* passed, in that order: a catalog absent from request and configuration is
\* the missing-default-catalog error, then a kind absent from both is the
\* missing-default-kind error, and those failures and an invalid effective kind
\* leave zero HTTP requests made.
C5_ChecksBeforeFetch ==
    /\ requests # <<>> =>
          /\ op = "Resolve" /\ Enabled /\ Len(requests) = 1
          /\ CatalogAvailable /\ KindAvailable
          /\ EffectiveKind \in ValidKinds
    /\ (op = "Resolve" /\ Enabled /\ ~CatalogAvailable) =>
          Failed(catalogDefaultError) /\ requests = <<>>
    /\ (op = "Resolve" /\ Enabled /\ CatalogAvailable /\ ~KindAvailable) =>
          Failed(kindDefaultError) /\ requests = <<>>
    /\ (op = "Resolve" /\ Enabled /\ CatalogAvailable /\ KindAvailable
           /\ EffectiveKind \notin ValidKinds) =>
          Failed(kindParamError) /\ requests = <<>>

C5_Witness ==
    /\ op = "Resolve" /\ Enabled /\ ~CatalogAvailable
    /\ Supplied(ParamName) /\ Supplied(ParamVersion) /\ Supplied(ParamKind)
    /\ Failed(catalogDefaultError) /\ requests = <<>>

----------------------------------------------------------------------------
(* C6 *)

SlotRank(t, i) == Cardinality({j \in 1..i : t[j] = "%s"})

FilledTemplate(t, args) ==
    [i \in DOMAIN t |-> IF t[i] = "%s" THEN args[SlotRank(t, i)] ELSE t[i]]

\* C6: the URL Resolve fetches is the template with its slots filled, in order,
\* by catalog, kind, name and version; catalog and kind are the request's
\* values when the request supplies them and the configured defaults otherwise,
\* name and version are the request's values (empty when the request has none),
\* and of a repeated name the last occurrence counts.
C6_UrlFromParams ==
    requests # <<>> =>
        /\ requests = <<url>>
        /\ url = FilledTemplate(r.HubURL,
                    <<EffectiveCatalog, EffectiveKind,
                      RequestValue(ParamName), RequestValue(ParamVersion)>>)

C6_Witness ==
    /\ requests # <<>>
    /\ ~Supplied(ParamCatalog)
    /\ Supplied(ParamVersion)
    /\ \E i, j \in DOMAIN params :
          /\ i < j
          /\ params[i].Name = ParamName /\ params[j].Name = ParamName
          /\ params[i].Value.StringVal # params[j].Value.StringVal

----------------------------------------------------------------------------
(* C7 *)

\* C7: with the flag enabled, ValidateParams on a request without name or
\* without version fails with the missing-parameter error whatever else the
\* request holds, an invalid kind included, and ValidateParams never reads the
\* installation configuration nor does network I/O.
C7_MissingNameOrVersion ==
    op = "ValidateParams" =>
        /\ pc = "done" /\ ~confRead /\ requests = <<>> /\ resp = <<>> /\ res = <<>>
        /\ (Enabled /\ ~Supplied(ParamName)) => err = <<nameParamError>>
        /\ (Enabled /\ Supplied(ParamName) /\ ~Supplied(ParamVersion)) =>
              err = <<versionParamError>>

C7_Witness ==
    /\ op = "ValidateParams" /\ Enabled
    /\ ~Supplied(ParamName)
    /\ Supplied(ParamKind) /\ LastValue(ParamKind) \notin ValidKinds
    /\ Configured(ConfigCatalog)
    /\ err = <<nameParamError>>

----------------------------------------------------------------------------
(* C8 *)

\* C8: a response with a status other than 200 makes Resolve fail with the
\* not-found error naming the URL it built; the body is neither read nor
\* parsed and no resource is returned.
C8_Non200IsNotFound ==
    (pc = "done" /\ Got /\ resp[1].StatusCode # StatusOK) =>
        /\ err = <<"requested resource '">> \o url \o <<"' not found on hub">>
        /\ requests = <<url>>
        /\ ~resp[1].read
        /\ ~resp[1].unmarshalled
        /\ res = <<>>

C8_Witness ==
    /\ pc = "done" /\ Got
    /\ resp[1].StatusCode = 404
    /\ resp[1].Body.data = Envelope
    /\ err # NoError

----------------------------------------------------------------------------
(* C9 *)

IsEnvelopeOf(b, lit) ==
    b = JObject(<<Member("data", JObject(<<Member("yaml", JString(lit))>>))>>)

ExpectedBytes(lit) == IF lit = YamlLiteral THEN <<97, 10, 98>> ELSE <<>>

\* C9: a 200 response with body {"data": {"yaml": s}} makes Resolve succeed
\* with a resource whose Data() is the bytes of s, whose Annotations() is empty
\* and whose Source() is absent; the content depends on the body alone, so
\* resolving again against the same body gives the same bytes.
C9_ContentIsYaml ==
    \A lit \in StringLiterals :
        (pc = "done" /\ Got /\ resp[1].StatusCode = StatusOK /\ ~resp[1].Body.readErr
            /\ IsEnvelopeOf(resp[1].Body.data, lit)) =>
            /\ err = NoError
            /\ Len(res) = 1
            /\ Data(res[1]) = ExpectedBytes(lit)
            /\ Annotations(res[1]) = <<>>
            /\ Source(res[1]) = <<>>

C9_Witness ==
    /\ pc = "done" /\ Got /\ resp[1].StatusCode = StatusOK
    /\ IsEnvelopeOf(resp[1].Body.data, YamlLiteral)
    /\ Len(res) = 1
    /\ Data(res[1]) = <<97, 10, 98>>

----------------------------------------------------------------------------
(* C10 *)

\* C10: whenever http.Get returned a response, its body is closed by the time
\* Resolve returns, on every exit path.
C10_BodyClosed ==
    (pc = "done" /\ Got) => resp[1].closed

====
